---- MODULE Spec2Model ----
(***************************************************************************)
(* Tic-Tac-Toe cog of sir-lancebot (bot/exts/fun/tic_tac_toe.py).          *)
(*                                                                         *)
(* The state is the cog's list of games (TicTacToe.games) together with    *)
(* the position of every command coroutine.  A coroutine runs atomically   *)
(* between two awaits, so every action below is the code between two       *)
(* suspension points.  Time is counted in seconds and advances in steps   *)
(* of TickStep.                                                            *)
(***************************************************************************)
EXTENDS Integers, Sequences, FiniteSets, TLC

VARIABLES
    games,      \* TicTacToe.games: the sequence of Game objects, in creation order
    requests,   \* start commands whose checks passed and whose callback has not run yet
    fboard,     \* input board of the pure-function specification
    fresult,    \* result of the function applied to fboard
    reply       \* what the last history command sent to the channel

vars == <<games, requests, fboard, fresult, reply>>

----------------------------------------------------------------------------
(* Bounds of the model *)

\* seconds by which one Tick advances a waiting coroutine's clock
TickStep == 30
\* wrong-sender interactions accepted during one get_move call
MaxRejects == 1
\* sessions created in the registry specification
MaxGames == 2

----------------------------------------------------------------------------
(* Constants of the program *)

TIMEOUT == 60
CONFIRM_TIMEOUT == 60
BoardSize == 9

x_square == "X"
o_square == "O"
empty_placeholder == "E"
confirmation == "confirm"
decline == "decline"

\* Python's None: an absent triple, an absent opponent, an absent winner
None == <<>>
NoUser == "None"
NoPlayer == 0

Cells == 1..BoardSize
Marks == {empty_placeholder, x_square, o_square}

\* discord identities: three humans and the bot account itself (ctx.me)
Humans == {"u1", "u2", "u3"}
Me == "me"
Users == Humans \cup {Me}

IsBot(user) == user = Me

Min(S) == CHOOSE k \in S : \A j \in S : k <= j

----------------------------------------------------------------------------
(* check_win *)

winning_combinations ==
    << <<1, 2, 3>>, <<4, 5, 6>>, <<7, 8, 9>>,
       <<1, 4, 7>>, <<2, 5, 8>>, <<3, 6, 9>>,
       <<1, 5, 9>>, <<3, 5, 7>> >>

\* the mutated test drops the requirement that the mark is X or O
LineWonAnyMark(board, t) ==
    /\ board[t[1]] = board[t[2]]
    /\ board[t[2]] = board[t[3]]

\* the test of one combination: three equal marks, and the mark is X or O
LineWon(board, t) ==
    /\ board[t[1]] = board[t[2]]
    /\ board[t[2]] = board[t[3]]
    /\ board[t[1]] \in {x_square, o_square}

\* the first combination, in list order, that is won; (False, None) otherwise
check_win(board) ==
    LET hits == {k \in 1..Len(winning_combinations) :
                    LineWon(board, winning_combinations[k])}
    IN  IF hits = {} THEN <<FALSE, None>>
        ELSE <<TRUE, winning_combinations[Min(hits)]>>

----------------------------------------------------------------------------
(* AI.get_move *)

\* the mutated list keeps the cells marked X
possible_moves_keep_x(board) ==
    {i \in Cells : board[i] # o_square}

\* cells whose emoji is neither O nor X (the dict is in ascending key order)
possible_moves(board) ==
    {i \in Cells : board[i] \notin {o_square, x_square}}

\* the mutated order tries X before O
symbol_order_x_first == <<x_square, o_square>>

\* the order of the outer loop: for symbol in (Emojis.o_square, Emojis.x_square)
symbol_order == <<o_square, x_square>>

\* the moves that make check_win true when `symbol` is put on a copy of the board
WinningMoves(board, symbol) ==
    {m \in possible_moves(board) :
        check_win([board EXCEPT ![m] = symbol])[1]}

\* the mutated choice tries the center before the corners
PositionalChoiceCenterFirst(pm) ==
    LET open_corners == pm \cap {1, 3, 7, 9}
        open_edges == pm \cap {2, 4, 6, 8}
    IN  IF 5 \in pm THEN {5}
        ELSE IF open_corners # {} THEN open_corners
        ELSE open_edges

\* lines 109-117: a random open corner, else the center, else a random open edge
\* (the empty set is random.choice of an empty list, an IndexError)
PositionalChoice(pm) ==
    LET open_corners == pm \cap {1, 3, 7, 9}
        open_edges == pm \cap {2, 4, 6, 8}
    IN  IF open_corners # {} THEN open_corners
        ELSE IF 5 \in pm THEN {5}
        ELSE open_edges

\* the mutated loop tries the mark of the AI only
AI_get_move_own_symbol_only(board) ==
    LET first == WinningMoves(board, symbol_order[1])
    IN  IF first # {} THEN {<<FALSE, Min(first)>>}
        ELSE {<<FALSE, move>> : move \in PositionalChoice(possible_moves(board))}

\* the pairs (timeout, position) AI.get_move can return for the board: the first
\* winning move of the first symbol that has one, else a positional choice
AI_get_move(board) ==
    LET first == WinningMoves(board, symbol_order[1])
        second == WinningMoves(board, symbol_order[2])
    IN  IF first # {} THEN {<<FALSE, Min(first)>>}
        ELSE IF second # {} THEN {<<FALSE, Min(second)>>}
        ELSE {<<FALSE, move>> : move \in PositionalChoice(possible_moves(board))}

----------------------------------------------------------------------------
(* Player, AI, Game *)

Player(user, symbol) == [kind |-> "Player", user |-> user, symbol |-> symbol]
AI(user, symbol) == [kind |-> "AI", user |-> user, symbol |-> symbol]

\* Game.__init__; pc is the position of the coroutine that owns the game
Game(players, channel) ==
    [ players  |-> players,
      channel  |-> channel,
      board    |-> [k \in Cells |-> empty_placeholder],
      current  |-> 1,
      next     |-> 2,
      winner   |-> NoPlayer,
      loser    |-> NoPlayer,
      over     |-> FALSE,
      canceled |-> FALSE,
      draw     |-> FALSE,
      pc       |-> "created",
      turn     |-> 0,        \* iterations of the loop of play that have run
      waited   |-> 0,        \* seconds the current wait_for has been waiting
      elapsed  |-> 0,        \* seconds since the current get_move / get_confirmation began
      events   |-> 0,        \* wrong-sender interactions received by the current get_move
      notices  |-> 0,        \* "not your turn" messages sent by the current get_move
      said     |-> "",       \* the last message the session sent to the channel
      reaction |-> "",       \* the emoji of the reaction wait_for returned to get_confirmation
      reactor  |-> NoUser ]  \* the user of the reaction wait_for returned to get_confirmation

GameUsers(g) == {g.players[1].user, g.players[2].user}

\* the position at which the coroutine waits for the move of players[who]
MovePc(g, who) == IF g.players[who].kind = "Player" THEN "wait" ELSE "ai"

----------------------------------------------------------------------------
(* The checks of the start command and the command itself *)

Running == {k \in 1..Len(games) : ~games[k].over}

\* is_channel_free: no game that is not over is bound to the channel
is_channel_free(channel) ==
    \A k \in Running : games[k].channel # channel

\* is_requester_free: the author plays in no game that is not over
is_requester_free(author) ==
    \A k \in Running : author \notin GameUsers(games[k])

\* lines 316-318: the opponent plays in no game that is not over
is_opponent_free(opponent) ==
    \A k \in Running : opponent \notin GameUsers(games[k])

\* the game the callback creates for request r, at its first suspension point
NewGame(r) ==
    IF r.opponent = NoUser
    THEN [Game(<<Player(r.author, x_square), AI(Me, o_square)>>, r.channel)
            EXCEPT !.pc = "wait", !.said = "It's time for the game! Let's begin."]
    ELSE IF IsBot(r.opponent)
    THEN [Game(<<Player(r.author, x_square), Player(r.opponent, o_square)>>, r.channel)
            EXCEPT !.pc = "returned", !.said = "You can't play Tic-Tac-Toe with bots!"]
    ELSE [Game(<<Player(r.author, x_square), Player(r.opponent, o_square)>>, r.channel)
            EXCEPT !.pc = "confirm"]

\* the mutated callback inserts the new game at the front of the list
CalledPrepend(r) ==
    IF r.opponent = r.author
    THEN games
    ELSE IF r.opponent # NoUser /\ ~is_opponent_free(r.opponent)
    THEN games
    ELSE <<NewGame(r)>> \o games

\* lines 313-331: the list of games after the callback has run for request r up to
\* its first suspension point
Called(r) ==
    IF r.opponent = r.author
    THEN games                                \* "You can't play against yourself."
    ELSE IF r.opponent # NoUser /\ ~is_opponent_free(r.opponent)
    THEN games                                \* "Opponent is already in game."
    ELSE Append(games, NewGame(r))

\* A start command arrives.  The framework first evaluates the check predicates
\* of the decorators, then converts the argument (opponent: Optional[discord.User])
\* and then calls the callback.  Converting a user may suspend the task (a user
\* that is not cached is fetched), so that the callback is a later step and other
\* tasks run in between; without an argument nothing suspends and the callback
\* runs in the same step.
Invoke(author, channel, opponent, limit) ==
    LET r == [author |-> author, channel |-> channel, opponent |-> opponent]
    IN  /\ Len(games) + Cardinality(requests) < limit
        /\ is_channel_free(channel)
        /\ is_requester_free(author)
        /\ IF opponent = NoUser
           THEN games' = Called(r) /\ UNCHANGED requests
           ELSE requests' = requests \cup {r} /\ UNCHANGED games
        /\ UNCHANGED <<fboard, fresult, reply>>

\* TicTacToe.tic_tac_toe, called after the conversion of its argument
tic_tac_toe(r) ==
    /\ r \in requests
    /\ requests' = requests \ {r}
    /\ games' = Called(r)
    /\ UNCHANGED <<fboard, fresult, reply>>

----------------------------------------------------------------------------
(* Game.get_confirmation *)

\* the mutated confirm_check lacks the test of the user
ReactionAnyUser(i, user, emoji) ==
    /\ i \in 1..Len(games)
    /\ games[i].pc = "confirm"
    /\ games[i].waited < CONFIRM_TIMEOUT
    /\ LET g == games[i]
       IN  IF ~(emoji \in {confirmation, decline})
           THEN UNCHANGED games
           ELSE IF emoji = confirmation
           THEN games' = [games EXCEPT ![i] =
                    [g EXCEPT !.pc = MovePc(g, g.current), !.waited = 0, !.elapsed = 0,
                              !.reaction = emoji, !.reactor = user,
                              !.said = "It's time for the game! Let's begin."]]
           ELSE games' = [games EXCEPT ![i] =
                    [g EXCEPT !.over = TRUE, !.canceled = TRUE, !.pc = "returned",
                              !.reaction = emoji, !.reactor = user,
                              !.said = "User declined"]]
    /\ UNCHANGED <<requests, fboard, fresult, reply>>

\* a reaction is added to the confirmation message
Reaction(i, user, emoji) ==
    /\ i \in 1..Len(games)
    /\ games[i].pc = "confirm"
    /\ games[i].waited < CONFIRM_TIMEOUT
    /\ LET g == games[i]
       IN  IF ~(emoji \in {confirmation, decline} /\ user = g.players[2].user)
           THEN UNCHANGED games                       \* confirm_check is false
           ELSE IF emoji = confirmation
           THEN games' = [games EXCEPT ![i] =
                    [g EXCEPT !.pc = MovePc(g, g.current), !.waited = 0, !.elapsed = 0,
                              !.reaction = emoji, !.reactor = user,
                              !.said = "It's time for the game! Let's begin."]]
           ELSE games' = [games EXCEPT ![i] =
                    [g EXCEPT !.over = TRUE, !.canceled = TRUE, !.pc = "returned",
                              !.reaction = emoji, !.reactor = user,
                              !.said = "User declined"]]
    /\ UNCHANGED <<requests, fboard, fresult, reply>>

\* asyncio.TimeoutError of the wait_for of get_confirmation
ConfirmTimeout(i) ==
    /\ i \in 1..Len(games)
    /\ games[i].pc = "confirm"
    /\ games[i].waited >= CONFIRM_TIMEOUT
    /\ games' = [games EXCEPT ![i] =
            [@ EXCEPT !.over = TRUE, !.canceled = TRUE, !.pc = "returned",
                      !.said = "Running out of time... Cancelled game."]]
    /\ UNCHANGED <<requests, fboard, fresult, reply>>

\* time passes for a coroutine inside a wait_for that has not timed out yet
Tick(i) ==
    /\ i \in 1..Len(games)
    /\ games[i].pc \in {"confirm", "wait"}
    /\ games[i].waited < TIMEOUT
    /\ games' = [games EXCEPT ![i] =
            [@ EXCEPT !.waited = @ + TickStep, !.elapsed = @ + TickStep]]
    /\ UNCHANGED <<requests, fboard, fresult, reply>>

----------------------------------------------------------------------------
(* Game.play with Player.get_move and AI.get_move *)

\* line 242: self.board[pos] = self.current.symbol
Placed(g, pos) ==
    [g.board EXCEPT ![pos] = g.players[g.current].symbol]

\* the mutated step names the other player as the winner
PlayedWinnerIsNext(g, pos) ==
    LET b == Placed(g, pos)
        fresh == [g EXCEPT !.board = b, !.turn = @ + 1, !.waited = 0, !.elapsed = 0,
                           !.events = 0, !.notices = 0]
    IN  IF check_win(b)[1]
        THEN [fresh EXCEPT !.winner = g.next, !.loser = g.current, !.pc = "end",
                           !.said = "won this game!"]
        ELSE IF g.turn + 1 = BoardSize
        THEN [fresh EXCEPT !.current = g.next, !.next = g.current, !.draw = TRUE,
                           !.pc = "end", !.said = "It's a DRAW!"]
        ELSE [fresh EXCEPT !.current = g.next, !.next = g.current,
                           !.pc = MovePc(g, g.next)]

\* the mutated step leaves the loop after the last iteration without setting draw
PlayedNoDraw(g, pos) ==
    LET b == Placed(g, pos)
        fresh == [g EXCEPT !.board = b, !.turn = @ + 1, !.waited = 0, !.elapsed = 0,
                           !.events = 0, !.notices = 0]
    IN  IF check_win(b)[1]
        THEN [fresh EXCEPT !.winner = g.current, !.loser = g.next, !.pc = "end",
                           !.said = "won this game!"]
        ELSE IF g.turn + 1 = BoardSize
        THEN [fresh EXCEPT !.current = g.next, !.next = g.current, !.pc = "end"]
        ELSE [fresh EXCEPT !.current = g.next, !.next = g.current,
                           !.pc = MovePc(g, g.next)]

\* the mutated step lacks the test of the winner before it sets draw
PlayedDrawAfterWin(g, pos) ==
    LET b == Placed(g, pos)
        fresh == [g EXCEPT !.board = b, !.turn = @ + 1, !.waited = 0, !.elapsed = 0,
                           !.events = 0, !.notices = 0]
    IN  IF check_win(b)[1]
        THEN [fresh EXCEPT !.winner = g.current, !.loser = g.next, !.pc = "end",
                           !.draw = TRUE,
                           !.said = "won this game!"]
        ELSE IF g.turn + 1 = BoardSize
        THEN [fresh EXCEPT !.current = g.next, !.next = g.current, !.draw = TRUE,
                           !.pc = "end", !.said = "It's a DRAW!"]
        ELSE [fresh EXCEPT !.current = g.next, !.next = g.current,
                           !.pc = MovePc(g, g.next)]

\* lines 242-282 for the move pos of the current player: the game at the next
\* suspension point of play
Played(g, pos) ==
    LET b == Placed(g, pos)
        fresh == [g EXCEPT !.board = b, !.turn = @ + 1, !.waited = 0, !.elapsed = 0,
                           !.events = 0, !.notices = 0]
    IN  IF check_win(b)[1]
        THEN [fresh EXCEPT !.winner = g.current, !.loser = g.next, !.pc = "end",
                           !.said = "won this game!"]
        ELSE IF g.turn + 1 = BoardSize
        THEN [fresh EXCEPT !.current = g.next, !.next = g.current, !.draw = TRUE,
                           !.pc = "end", !.said = "It's a DRAW!"]
        ELSE [fresh EXCEPT !.current = g.next, !.next = g.current,
                           !.pc = MovePc(g, g.next)]

\* the mutated handler lacks the continue: after the notice it returns the position
WrongSenderFallsThrough(g, pos) ==
    [Played(g, pos) EXCEPT !.events = g.events + 1, !.notices = g.notices + 1]

\* lines 73-78: the sender is told that it is not their turn, and get_move calls
\* wait_for again
WrongSender(g, pos) ==
    [g EXCEPT !.events = @ + 1, !.notices = @ + 1, !.waited = 0]

\* an interaction on the board message, sent by someone else than the current player
NotYourTurn(i, sender, pos) ==
    /\ i \in 1..Len(games)
    /\ games[i].pc = "wait"
    /\ games[i].waited < TIMEOUT
    /\ games[i].events < MaxRejects
    /\ sender # games[i].players[games[i].current].user
    /\ games' = [games EXCEPT ![i] = WrongSender(games[i], pos)]
    /\ UNCHANGED <<requests, fboard, fresult, reply>>

\* an interaction on the board message, sent by the current player
HumanMove(i, pos) ==
    /\ i \in 1..Len(games)
    /\ games[i].pc = "wait"
    /\ games[i].waited < TIMEOUT
    /\ games' = [games EXCEPT ![i] = Played(games[i], pos)]
    /\ UNCHANGED <<requests, fboard, fresult, reply>>

\* lines 235-241: get_move reported a timeout
TimedOut(g) ==
    [g EXCEPT !.over = TRUE, !.canceled = TRUE, !.pc = "returned",
              !.said = "ran out of time. Canceling game."]

\* the mutated step ends the session without marking it canceled
MoveTimeoutNotCanceled(i) ==
    /\ i \in 1..Len(games)
    /\ games[i].pc = "wait"
    /\ games[i].waited >= TIMEOUT
    /\ games' = [games EXCEPT ![i] =
            [@ EXCEPT !.over = TRUE, !.draw = TRUE, !.pc = "returned",
                      !.said = "ran out of time. Canceling game."]]
    /\ UNCHANGED <<requests, fboard, fresult, reply>>

\* lines 69-70: the wait_for of Player.get_move times out, and play cancels
MoveTimeout(i) ==
    /\ i \in 1..Len(games)
    /\ games[i].pc = "wait"
    /\ games[i].waited >= TIMEOUT
    /\ games' = [games EXCEPT ![i] = TimedOut(games[i])]
    /\ UNCHANGED <<requests, fboard, fresult, reply>>

\* the turn of the AI: get_move and the rest of the iteration
AIMove(i) ==
    /\ i \in 1..Len(games)
    /\ games[i].pc = "ai"
    /\ LET moves == AI_get_move(games[i].board)
       IN  IF moves = {}
           THEN games' = [games EXCEPT ![i] = [@ EXCEPT !.pc = "raised"]]  \* IndexError
           ELSE \E m \in moves :
                    games' = [games EXCEPT ![i] =
                        IF m[1] THEN TimedOut(games[i]) ELSE Played(games[i], m[2])]
    /\ UNCHANGED <<requests, fboard, fresult, reply>>

\* line 282, after the last messages are sent
PlayEnd(i) ==
    /\ i \in 1..Len(games)
    /\ games[i].pc = "end"
    /\ games' = [games EXCEPT ![i] = [@ EXCEPT !.over = TRUE, !.pc = "returned"]]
    /\ UNCHANGED <<requests, fboard, fresult, reply>>

----------------------------------------------------------------------------
(* The history commands *)

\* the mutated loop lists the canceled games as well
RECURSIVE log_games_with_canceled(_)
log_games_with_canceled(n) ==
    IF n = 0 THEN <<>>
    ELSE IF games[n].over
         THEN Append(log_games_with_canceled(n - 1),
                     [id |-> n, text |-> IF games[n].draw THEN "draw" ELSE "trophy"])
         ELSE log_games_with_canceled(n - 1)

\* lines 351-361: the lines of the listing for the first n games, "**#{i+1}**: ..."
RECURSIVE log_games(_)
log_games(n) ==
    IF n = 0 THEN <<>>
    ELSE IF games[n].over /\ ~games[n].canceled
         THEN Append(log_games(n - 1),
                     [id |-> n, text |-> IF games[n].draw THEN "draw" ELSE "trophy"])
         ELSE log_games(n - 1)

\* TicTacToe.tic_tac_toe_logs
tic_tac_toe_logs ==
    /\ reply' = IF Len(games) < 1
                THEN [op |-> "logs", id |-> 0, text |-> "No recent games.",
                      game |-> 0, entries |-> <<>>]
                ELSE [op |-> "logs", id |-> 0, text |-> "Most recent Tic Tac Toe games",
                      game |-> 0, entries |-> log_games(Len(games))]
    /\ UNCHANGED <<games, requests, fboard, fresult>>

\* the element list[k] of a Python list of length n, as a position 1..n of the
\* sequence: a negative index counts from the end; 0 stands for an IndexError
PyIndex(n, k) ==
    IF k >= 0 THEN (IF k < n THEN k + 1 ELSE 0)
    ELSE (IF -k <= n THEN n + k + 1 ELSE 0)

\* TicTacToe.show_tic_tac_toe_board: the game whose board is sent for game_id
show_tic_tac_toe_board(game_id) ==
    /\ reply' =
          IF Len(games) < game_id
          THEN [op |-> "show", id |-> game_id, text |-> "Game don't exist.",
                game |-> 0, entries |-> <<>>]
          ELSE LET k == PyIndex(Len(games), game_id - 1)
               IN  IF k = 0
                   THEN [op |-> "show", id |-> game_id, text |-> "IndexError",
                         game |-> 0, entries |-> <<>>]
                   ELSE [op |-> "show", id |-> game_id,
                         text |-> IF games[k].draw THEN "draw" ELSE "trophy",
                         game |-> k, entries |-> <<>>]
    /\ UNCHANGED <<games, requests, fboard, fresult>>

----------------------------------------------------------------------------
(* Specifications *)

NoResult == [op |-> "none", won |-> FALSE, line |-> None]
NoReply == [op |-> "none", id |-> 0, text |-> "", game |-> 0, entries |-> <<>>]
EmptyBoard == [k \in Cells |-> empty_placeholder]

\* One session: a single start command by u1 in channel c1, against the AI,
\* against the human u2 or against the bot account; every cell may be named by
\* a move, and anybody may press a button.
Init ==
    /\ games = <<>>
    /\ requests = {}
    /\ fboard = EmptyBoard
    /\ fresult = NoResult
    /\ reply = NoReply

Next ==
    \/ \E opponent \in {NoUser, "u2", Me} : Invoke("u1", "c1", opponent, 1)
    \/ \E r \in requests : tic_tac_toe(r)
    \/ \E i \in 1..Len(games), user \in {"u1", "u2"}, emoji \in {confirmation, decline} :
            Reaction(i, user, emoji)
    \/ \E i \in 1..Len(games) : ConfirmTimeout(i)
    \/ \E i \in 1..Len(games) : Tick(i)
    \/ \E i \in 1..Len(games), sender \in Humans, pos \in Cells : NotYourTurn(i, sender, pos)
    \/ \E i \in 1..Len(games), pos \in Cells : HumanMove(i, pos)
    \/ \E i \in 1..Len(games) : MoveTimeout(i)
    \/ \E i \in 1..Len(games) : AIMove(i)
    \/ \E i \in 1..Len(games) : PlayEnd(i)

Spec == Init /\ [][Next]_vars

\* check_win on every board: the board is any assignment of marks to the cells
FnInit ==
    /\ games = <<>>
    /\ requests = {}
    /\ fboard \in [Cells -> Marks]
    /\ fresult = NoResult
    /\ reply = NoReply

Apply_check_win ==
    /\ fresult.op = "none"
    /\ fresult' = [op |-> "check_win", won |-> check_win(fboard)[1],
                                       line |-> check_win(fboard)[2]]
    /\ UNCHANGED <<games, requests, fboard, reply>>

FnNext == Apply_check_win

SpecFn == FnInit /\ [][FnNext]_vars

\* The registry: up to MaxGames start commands by u1 and u2 in one channel, whose
\* callbacks interleave with each other and with the running sessions.  The humans
\* of this specification mark the cells in the order of MoveScript and nobody
\* presses a button out of turn.
MoveScript == <<1, 2, 3, 5, 4, 6, 8, 7, 9>>

ScriptedCell(board) ==
    MoveScript[Min({k \in 1..Len(MoveScript) : board[MoveScript[k]] = empty_placeholder})]

RegNext ==
    \/ \E author \in {"u1", "u2"}, channel \in {"c1"}, opponent \in {NoUser, "u1", "u2", Me} :
            Invoke(author, channel, opponent, MaxGames)
    \/ \E r \in requests : tic_tac_toe(r)
    \/ \E i \in 1..Len(games), user \in {"u1", "u2"}, emoji \in {confirmation, decline} :
            Reaction(i, user, emoji)
    \/ \E i \in 1..Len(games) : ConfirmTimeout(i)
    \/ \E i \in 1..Len(games) : Tick(i)
    \/ \E i \in 1..Len(games) : HumanMove(i, ScriptedCell(games[i].board))
    \/ \E i \in 1..Len(games) : MoveTimeout(i)
    \/ \E i \in 1..Len(games) : AIMove(i)
    \/ \E i \in 1..Len(games) : PlayEnd(i)

SpecRegistry == Init /\ [][RegNext]_vars

\* The registry with its history commands, which may be sent at any time; the
\* game id of the show command ranges from -1 to one past the number of games.
\* The sessions are started by u1, against the AI or against u2, and played as in
\* the registry specification.
HistNext ==
    \/ \E opponent \in {NoUser, "u2"} : Invoke("u1", "c1", opponent, MaxGames)
    \/ \E r \in requests : tic_tac_toe(r)
    \/ \E i \in 1..Len(games), user \in {"u1", "u2"}, emoji \in {confirmation, decline} :
            Reaction(i, user, emoji)
    \/ \E i \in 1..Len(games) : ConfirmTimeout(i)
    \/ \E i \in 1..Len(games) : Tick(i)
    \/ \E i \in 1..Len(games) : HumanMove(i, ScriptedCell(games[i].board))
    \/ \E i \in 1..Len(games) : MoveTimeout(i)
    \/ \E i \in 1..Len(games) : AIMove(i)
    \/ \E i \in 1..Len(games) : PlayEnd(i)
    \/ tic_tac_toe_logs
    \/ \E game_id \in (-1)..(Len(games) + 1) : show_tic_tac_toe_board(game_id)

SpecHistory == Init /\ [][HistNext]_vars

----------------------------------------------------------------------------
(* Properties *)

Sessions == 1..Len(games)

\* the rows, columns and diagonals of the 3x3 grid, as sets of cells
Rows == {{3 * r + 1, 3 * r + 2, 3 * r + 3} : r \in 0..2}
Columns == {{c, c + 3, c + 6} : c \in 1..3}
Diagonals == {{1, 5, 9}, {3, 5, 7}}
Lines == Rows \cup Columns \cup Diagonals

FullLine(board, L) == \E m \in {x_square, o_square} : \A c \in L : board[c] = m
HasLine(board) == \E L \in Lines : FullLine(board, L)
IsFull(board) == \A c \in Cells : board[c] # empty_placeholder

\* a line on which `mark` holds two cells and the third is empty
Threat(board, mark, L) ==
    \E c \in L : /\ board[c] = empty_placeholder
                 /\ \A d \in L \ {c} : board[d] = mark

MoveTimedOut(g) == g.said = "ran out of time. Canceling game."

\* C1: a cell that is marked X or O is never overwritten: whatever step a session
\* takes, every cell that was marked keeps its mark.
C1_MarkedCellNeverOverwritten ==
    [][\A i \in Sessions : \A c \in Cells :
          games[i].board[c] # empty_placeholder
              => games'[i].board[c] = games[i].board[c]]_vars

\* C2: a human move wait that ends in a timeout ends at the single deadline of
\* the get_move call (the first tick at or after TIMEOUT seconds from its start),
\* and it sent one notice per wrong-sender interaction it received.
C2_SingleDeadline ==
    \A i \in Sessions :
        MoveTimedOut(games[i]) =>
            /\ games[i].elapsed < TIMEOUT + TickStep
            /\ games[i].notices = games[i].events

\* C3: a step in which a session sends a "not your turn" notice leaves its board,
\* current, next and status as they were, and the session keeps waiting for the
\* current player.
C3_WrongSenderChangesNothing ==
    [][\A i \in Sessions :
          games'[i].notices = games[i].notices + 1 =>
              /\ games'[i].board = games[i].board
              /\ games'[i].current = games[i].current
              /\ games'[i].next = games[i].next
              /\ games'[i].turn = games[i].turn
              /\ games'[i].winner = games[i].winner
              /\ games'[i].loser = games[i].loser
              /\ games'[i].over = games[i].over /\ ~games'[i].over
              /\ games'[i].canceled = games[i].canceled
              /\ games'[i].draw = games[i].draw
              /\ games[i].pc = "wait" /\ games'[i].pc = "wait"]_vars

C3_Witness ==
    \E i \in Sessions :
        /\ games[i].notices = 1
        /\ games[i].pc = "wait"
        /\ games[i].turn = 2

\* C4: check_win reports (True, triple) exactly when some row, column or diagonal
\* holds three equal marks X or O, the triple is such a line, and it reports
\* (False, None) otherwise.
C4_CheckWinCorrect ==
    fresult.op = "check_win" =>
        /\ fresult.won <=> HasLine(fboard)
        /\ fresult.won =>
              /\ Len(fresult.line) = 3
              /\ {fresult.line[k] : k \in 1..3} \in Lines
              /\ FullLine(fboard, {fresult.line[k] : k \in 1..3})
        /\ ~fresult.won => fresult.line = None

C4_Witness ==
    /\ fresult.op = "check_win"
    /\ fresult.won
    /\ fresult.line = <<3, 5, 7>>
    /\ fboard[1] = empty_placeholder

\* C5: a session whose nine moves filled the board without three in a row is a
\* draw: draw is set, there is no winner and no loser, and when its coroutine has
\* returned it is over and not canceled.
C5_FullBoardIsDraw ==
    \A i \in Sessions :
        (IsFull(games[i].board) /\ ~HasLine(games[i].board)) =>
            /\ games[i].draw
            /\ games[i].winner = NoPlayer
            /\ games[i].loser = NoPlayer
            /\ ~games[i].canceled
            /\ games[i].pc \in {"end", "returned"}
            /\ games[i].pc = "returned" => games[i].over

C5_Witness ==
    \E i \in Sessions :
        /\ IsFull(games[i].board) /\ ~HasLine(games[i].board)
        /\ games[i].draw /\ games[i].over

\* C6: when the board holds a completed line the session is won by the player
\* whose mark is on the line, who is the player that moved last (current); the
\* loser is the other player, draw is not set, no move is pending, and the
\* session is over once its coroutine has returned.
C6_WinnerIsMover ==
    \A i \in Sessions :
        LET g == games[i]
            w == check_win(g.board)
        IN  w[1] =>
              /\ g.winner \in {1, 2}
              /\ g.players[g.winner].symbol = g.board[w[2][1]]
              /\ g.winner = g.current
              /\ g.loser = g.next /\ g.loser = 3 - g.winner
              /\ ~g.draw /\ ~g.canceled
              /\ g.pc \in {"end", "returned"}
              /\ g.pc = "returned" => g.over

C6_Witness ==
    \E i \in Sessions :
        /\ HasLine(games[i].board) /\ IsFull(games[i].board)
        /\ games[i].turn = BoardSize
        /\ games[i].winner = 1 /\ games[i].over

\* C7: when the wait for a human move has timed out, the next step of the session
\* cancels it (over and canceled, no winner, no loser, no draw) with the board
\* as it was, and a canceled session never changes again.
C7_TimeoutCancels ==
    [][\A i \in Sessions :
          /\ (games[i].pc = "wait" /\ games[i].waited >= TIMEOUT
                  /\ games'[i] # games[i]) =>
                /\ games'[i].over /\ games'[i].canceled
                /\ games'[i].winner = NoPlayer /\ games'[i].loser = NoPlayer
                /\ ~games'[i].draw
                /\ games'[i].board = games[i].board
                /\ games'[i].pc = "returned"
          /\ games[i].canceled => games'[i] = games[i]]_vars

C7_Witness ==
    \E i \in Sessions :
        /\ MoveTimedOut(games[i])
        /\ games[i].canceled /\ games[i].over
        /\ games[i].turn = 3

\* C8: whenever the AI is to move, get_move returns at least one result, never a
\* timeout, and every position it can return is empty on the board.
C8_AIPicksEmptyCell ==
    \A i \in Sessions :
        games[i].pc = "ai" =>
            /\ AI_get_move(games[i].board) # {}
            /\ \A m \in AI_get_move(games[i].board) :
                  /\ m[1] = FALSE
                  /\ games[i].board[m[2]] = empty_placeholder

C8_Witness ==
    \E i \in Sessions :
        /\ games[i].pc = "ai"
        /\ games[i].turn = 7
        /\ Cardinality(possible_moves(games[i].board)) = 2

\* C9: whenever the AI is to move and its mark holds two cells of a line whose
\* third cell is empty, every position it can return completes a line of its mark.
C9_AITakesWin ==
    \A i \in Sessions :
        LET g == games[i]
            own == g.players[g.current].symbol
        IN  (g.pc = "ai" /\ \E L \in Lines : Threat(g.board, own, L)) =>
                \A m \in AI_get_move(g.board) :
                    \E L \in Lines :
                        /\ m[2] \in L
                        /\ g.board[m[2]] = empty_placeholder
                        /\ \A d \in L \ {m[2]} : g.board[d] = own

\* the AI can win at once while the opponent threatens to win as well
C9_Witness ==
    \E i \in Sessions :
        LET g == games[i]
        IN  /\ g.pc = "ai"
            /\ \E L \in Lines : Threat(g.board, g.players[g.current].symbol, L)
            /\ \E L \in Lines : Threat(g.board, g.players[g.next].symbol, L)

\* C10: at most one session that is not over is bound to a channel.
C10_OneRunningSessionPerChannel ==
    \A j, k \in Running :
        games[j].channel = games[k].channel => j = k

\* the human users among the players of a game
HumanUsers(g) == {g.players[k].user : k \in {n \in 1..2 : g.players[n].kind = "Player"}} \cap Humans

\* C11: no human plays in two different sessions that are not over.
C11_NoHumanInTwoRunningSessions ==
    \A j, k \in Running :
        j # k => HumanUsers(games[j]) \cap HumanUsers(games[k]) = {}

\* C12: the show command answers "Game don't exist." for every game id outside
\* 1..len(games), and for a game id inside it shows the game at that place of the list.
C12_ShowByIndex ==
    [][(reply' # reply /\ reply'.op = "show") =>
          IF reply'.id \in 1..Len(games)
          THEN reply'.game = reply'.id
          ELSE reply'.text = "Game don't exist." /\ reply'.game = 0]_vars

\* C13: the listing sent by the history command holds exactly the games that are
\* over and not canceled, each of them won or drawn, in the order of the list and
\* labelled with their place in it.
C13_ListingIsWonOrDraw ==
    [][(reply' # reply /\ reply'.op = "logs") =>
          LET e == reply'.entries
          IN  /\ {e[k].id : k \in 1..Len(e)} =
                    {i \in Sessions : games[i].over /\ ~games[i].canceled}
              /\ \A k \in 1..Len(e) :
                    /\ k < Len(e) => e[k].id < e[k + 1].id
                    /\ games[e[k].id].draw \/ games[e[k].id].winner # NoPlayer
                    /\ e[k].text = IF games[e[k].id].draw THEN "draw" ELSE "trophy"
                    /\ games[e[k].id].pc = "returned"]_vars

\* a listing of one finished game that is the second of the list, behind a canceled one
C13_Witness ==
    /\ reply.op = "logs"
    /\ Len(reply.entries) = 1
    /\ reply.entries[1].id = 2
    /\ games[1].canceled

\* the session is between two humans: the second player is a Player that is not a bot
TwoHumans(g) == g.players[2].kind = "Player" /\ ~IsBot(g.players[2].user)

\* the turn loop of the session has started
PlayStarted(g) ==
    \/ g.pc \in {"wait", "ai", "end"}
    \/ g.turn > 0
    \/ g.board # EmptyBoard
    \/ g.winner # NoPlayer
    \/ g.draw

\* C14: a session between two humans starts its turn loop only after the invited
\* player reacted with the confirmation emoji; after a decline by the invited
\* player, or after 60 seconds without a reaction of the invited player, the
\* session is over and canceled, its turn loop never started and its board is
\* empty; a reaction of any other user neither accepts nor declines.
C14_PlayOnlyAfterAcceptance ==
    \A i \in Sessions :
        LET g == games[i]
            invited == g.players[2].user
        IN  TwoHumans(g) =>
              /\ g.reactor \in {NoUser, invited}
              /\ PlayStarted(g) => g.reaction = confirmation /\ g.reactor = invited
              /\ g.pc = "confirm" => ~g.over /\ g.reaction = "" /\ g.waited < CONFIRM_TIMEOUT + TickStep
              /\ g.reaction = decline =>
                    /\ g.over /\ g.canceled /\ g.pc = "returned"
                    /\ ~PlayStarted(g)
                    /\ g.said = "User declined"
              /\ g.reaction = "" /\ g.pc # "confirm" =>
                    /\ g.over /\ g.canceled /\ g.pc = "returned"
                    /\ ~PlayStarted(g)
                    /\ g.waited >= CONFIRM_TIMEOUT
                    /\ g.said = "Running out of time... Cancelled game."

\* the invitation ran out of time and the session was canceled before any move
C14_Witness ==
    \E i \in Sessions :
        /\ TwoHumans(games[i])
        /\ games[i].said = "Running out of time... Cancelled game."
        /\ games[i].canceled
        /\ games[i].board = EmptyBoard

\* C15: every session appended by a start command eventually is over, whatever the
\* outcome of the command, the refusal of a bot opponent included.  The command
\* is the only code that changes the session, so that the session has to be
\* over at the latest when the command has returned.
C15_ReturnedSessionIsOver ==
    \A i \in Sessions : games[i].pc = "returned" => games[i].over

\* the outcomes a session shows: a winner, a draw, a cancellation
Outcomes(g) ==
    (IF g.winner # NoPlayer THEN {"won"} ELSE {}) \cup
    (IF g.draw THEN {"draw"} ELSE {}) \cup
    (IF g.canceled THEN {"canceled"} ELSE {})

\* C16: in every state a session shows at most one of winner set, draw and
\* canceled, and once a session is over its board, winner, loser, draw and
\* canceled never change again.
C16_OutcomeExclusiveAndFinal ==
    [][\A i \in Sessions :
          /\ Cardinality(Outcomes(games[i])) <= 1
          /\ Cardinality(Outcomes(games'[i])) <= 1
          /\ games[i].over =>
                /\ games'[i].over
                /\ games'[i].board = games[i].board
                /\ games'[i].winner = games[i].winner
                /\ games'[i].loser = games[i].loser
                /\ games'[i].draw = games[i].draw
                /\ games'[i].canceled = games[i].canceled]_vars

\* a won session is over and keeps its outcome while a later session is played
C16_Witness ==
    /\ Len(games) = 2
    /\ games[1].over
    /\ games[1].winner # NoPlayer
    /\ games[2].turn > 0

\* the number of cells of the board that hold the mark
Count(board, mark) == Cardinality({c \in Cells : board[c] = mark})

\* C17: X moves first and the players strictly alternate, so that in every state
\* of a session count(X) - count(O) is 0 or 1, and the player to move holds X
\* exactly when the two counts are equal.
C17_StrictAlternation ==
    \A i \in Sessions :
        LET g == games[i]
            nx == Count(g.board, x_square)
            no == Count(g.board, o_square)
        IN  /\ nx - no \in {0, 1}
            /\ g.pc \in {"wait", "ai"} =>
                  (g.players[g.current].symbol = x_square <=> nx = no)

\* C18: the list of games only grows: a session is appended when it is created,
\* before any confirmation, and no entry is ever removed or moved, so that the
\* index of a session never changes and a declined or timed-out session keeps
\* its place.
C18_HistoryOnlyGrows ==
    [][/\ Len(games') \in {Len(games), Len(games) + 1}
       /\ \A i \in 1..Len(games) :
             /\ games'[i].players = games[i].players
             /\ games'[i].channel = games[i].channel
             /\ games'[i].turn >= games[i].turn
             /\ games[i].over => games'[i] = games[i]
       /\ Len(games') = Len(games) + 1 =>
             LET g == games'[Len(games')]
             IN  /\ g.turn = 0
                 /\ g.board = EmptyBoard
                 /\ ~g.over
                 /\ g.reaction = ""
                 /\ TwoHumans(g) => g.pc = "confirm"]_vars

\* a declined session keeps the first place while a second session is played
C18_Witness ==
    /\ Len(games) = 2
    /\ games[1].canceled
    /\ games[1].said = "User declined"
    /\ games[1].board = EmptyBoard
    /\ games[2].turn > 0

\* some line of the board is a threat of the mark
Threatens(board, mark) == \E L \in Lines : Threat(board, mark, L)

\* C19: whenever the AI is to move, its mark has no line with two cells and the
\* third empty, and the mark of the opponent has such a line, every position
\* the AI can return is the empty cell of such a line of the opponent.
C19_AIBlocks ==
    \A i \in Sessions :
        LET g == games[i]
            own == g.players[g.current].symbol
            other == g.players[g.next].symbol
        IN  (g.pc = "ai" /\ ~Threatens(g.board, own) /\ Threatens(g.board, other)) =>
                \A m \in AI_get_move(g.board) :
                    \E L \in Lines :
                        /\ m[2] \in L
                        /\ g.board[m[2]] = empty_placeholder
                        /\ \A d \in L \ {m[2]} : g.board[d] = other

\* the AI is to move, cannot win at once, and the opponent threatens on a line
\* while a corner is still empty
C19_Witness ==
    \E i \in Sessions :
        LET g == games[i]
        IN  /\ g.pc = "ai"
            /\ ~Threatens(g.board, g.players[g.current].symbol)
            /\ Threatens(g.board, g.players[g.next].symbol)
            /\ \E c \in {1, 3, 7, 9} : g.board[c] = empty_placeholder

Corners == {1, 3, 7, 9}
Edges == {2, 4, 6, 8}
EmptyCells(board) == {c \in Cells : board[c] = empty_placeholder}

====
